---------------------------- MODULE Spec2Model ----------------------------
(***************************************************************************)
(* Local order book maintenance: the array-merge manager                   *)
(* (orderbook.merge.js, BybitOrderBookManager) and the red-black-tree      *)
(* manager (orderbook.Btree.js, OrderBookManager), driven side by side by  *)
(* the same sequence of initialize / processSnapshot / processDelta /      *)
(* getOrderBook calls.                                                     *)
(*                                                                         *)
(* A price level of the merge manager is a JavaScript array [price, size]: *)
(* an object with identity.  The merge manager's books and the lists       *)
(* returned by its getOrderBook hold references into `heap`; the tree      *)
(* manager copies every level into a fresh {price, size} object, so its    *)
(* results are values.  JavaScript indices are 0-based, the sequences here *)
(* 1-based: level[1] is the price (JS [0]), level[2] the size (JS [1]).    *)
(* The stats fields (wall-clock timings and call counters) are written by  *)
(* the handlers and read only by getStats; of them only stats.bookSize of  *)
(* the tree manager is modelled, where the timer that prints it is.        *)
(***************************************************************************)
EXTENDS Integers, Sequences, FiniteSets, TLC

\* ------------------------------------------------------------------ bounds

\* Prices of the feed are 1..MaxPrice.
MaxPrice == 3
\* Sizes of the feed are 0..MaxSize (0 is the deletion signal).
MaxSize == 2
\* Most entries one snapshot or delta event carries (bids and asks together).
MaxBatch == 2
\* Largest explicit depth passed to getOrderBook.
MaxDepth == 3
\* Most calls made where the number of calls is bounded (SpecAny, SpecFault,
\* SpecHold).
MaxEvents == 2

\* The default of getOrderBook's depth parameter.
DefaultDepth == 200

\* ------------------------------------------------------- JavaScript values

\* The number NaN (every other number of the model is an integer).
NaN == -999999

Min(a, b) == IF a < b THEN a ELSE b
Max(a, b) == IF a > b THEN a ELSE b

\* a - b on JavaScript numbers.
Minus(a, b) == IF a = NaN \/ b = NaN THEN NaN ELSE a - b
\* cmp < 0 and cmp > 0: both false for NaN.
Lt0(c) == c # NaN /\ c < 0
Gt0(c) == c # NaN /\ c > 0

DigitChars == <<"0", "1", "2", "3", "4", "5", "6", "7", "8", "9">>
\* The value of each decimal digit.
DigitOf == [c \in {DigitChars[d] : d \in 1..10} |->
              CHOOSE d \in 0..9 : DigitChars[d + 1] = c]
IsDigit(c) == c \in DOMAIN DigitOf
DigitVal(c) == DigitOf[c]

RECURSIVE DigitsValue(_, _)
\* The value of a string of decimal digits, acc the value read so far.
DigitsValue(s, acc) ==
  IF s = <<>> THEN acc ELSE DigitsValue(Tail(s), 10 * acc + DigitVal(Head(s)))

AllDigits(s) == s # <<>> /\ \A k \in 1..Len(s) : IsDigit(s[k])

\* Number(s) for a string s, given as its sequence of characters: "" is 0, a
\* decimal numeral its value, a numeral after "-" the negative, anything else
\* NaN.
Number(s) ==
  IF s = <<>> THEN 0
  ELSE IF AllDigits(s) THEN DigitsValue(s, 0)
  ELSE IF Head(s) = "-" /\ AllDigits(Tail(s)) THEN 0 - DigitsValue(Tail(s), 0)
  ELSE NaN

RECURSIVE Str(_)
\* The decimal numeral of n >= 0, as the feed writes it.
Str(n) == IF n < 10 THEN <<DigitChars[n + 1]>>
          ELSE Str(n \div 10) \o <<DigitChars[(n % 10) + 1]>>

\* One raw entry of a snapshot or delta list: [priceString, sizeString] ...
RawPair(p, q) == [p |-> p, q |-> q]
\* ... or a value that cannot be destructured as [p, q] (null).
NullEntry == [null |-> TRUE]
IsNull(e) == "null" \in DOMAIN e

\* ([p, q]) => [Number(p), Number(q)]
ParseEntry(e) == <<Number(e.p), Number(e.q)>>

\* list.map(([p, q]) => [Number(p), Number(q)]): throws a TypeError at the
\* first entry that cannot be destructured; no element is produced then.
MapThrows(list) == \E k \in 1..Len(list) : IsNull(list[k])
MapParse(list) == [k \in 1..Len(list) |-> ParseEntry(list[k])]

\* snapshot.b || [] : a missing list reads as the empty one.
OrEmpty(obj, f) == IF f \in DOMAIN obj THEN obj[f] ELSE <<>>
\* delta.b?.length > 0
NonEmpty(obj, f) == f \in DOMAIN obj /\ Len(obj[f]) > 0

\* array.slice(0, depth)
Slice(seq, depth) ==
  LET end == IF depth < 0 THEN Max(Len(seq) + depth, 0) ELSE Min(depth, Len(seq))
  IN SubSeq(seq, 1, end)

\* ------------------------------------------------- the array-merge manager

\* The level objects a map() call creates are appended to the heap; NewRefs
\* are the references to n objects appended to heap.
Alloc(heap, values) == heap \o values
NewRefs(heap, n) == [k \in 1..n |-> Len(heap) + k]

\* The levels a list of references holds.
Deref(heap, refs) == [k \in 1..Len(refs) |-> heap[refs[k]]]

\* The push without the test of the size.
PushUpdateAlways(heap, u) == <<u>>
\* if (updates[j][1] !== 0) merged.push(updates[j]);
PushUpdate(heap, u) == IF heap[u][2] # 0 THEN <<u>> ELSE <<>>

\* The branch of equal prices (cmp neither < 0 nor > 0): the update's own
\* object goes to merged, the current one is dropped.
OnEqualInPlace(heap, c, u) ==
  IF heap[u][2] # 0
    THEN [heap |-> [heap EXCEPT ![c] = <<heap[c][1], heap[u][2]>>], push |-> <<c>>]
    ELSE [heap |-> heap, push |-> <<>>]
OnEqual(heap, c, u) == [heap |-> heap, push |-> PushUpdate(heap, u)]

\* The comparison with the ascending flag ignored.
CmpAscendingOnly(heap, c, u, ascending) == Minus(heap[c][1], heap[u][1])
\* The comparison of the first loop: current[i][0] - updates[j][0] when
\* ascending, updates[j][0] - current[i][0] when not.
Cmp(heap, c, u, ascending) ==
  IF ascending THEN Minus(heap[c][1], heap[u][1]) ELSE Minus(heap[u][1], heap[c][1])

RECURSIVE MergeLoop(_, _, _, _, _, _, _)
\* The three loops of mergeSortedUpdates, i and j one more than in the code.
MergeLoop(heap, current, updates, ascending, i, j, merged) ==
  IF i <= Len(current) /\ j <= Len(updates) THEN
    LET cmp == Cmp(heap, current[i], updates[j], ascending) IN
    IF Lt0(cmp) THEN
      MergeLoop(heap, current, updates, ascending, i + 1, j,
                Append(merged, current[i]))
    ELSE IF Gt0(cmp) THEN
      MergeLoop(heap, current, updates, ascending, i, j + 1,
                merged \o PushUpdate(heap, updates[j]))
    ELSE
      LET r == OnEqual(heap, current[i], updates[j]) IN
      MergeLoop(r.heap, current, updates, ascending, i + 1, j + 1,
                merged \o r.push)
  ELSE IF i <= Len(current) THEN
    MergeLoop(heap, current, updates, ascending, i + 1, j,
              Append(merged, current[i]))
  ELSE IF j <= Len(updates) THEN
    MergeLoop(heap, current, updates, ascending, i, j + 1,
              merged \o PushUpdate(heap, updates[j]))
  ELSE [heap |-> heap, merged |-> merged]

\* mergeSortedUpdates(current, updates, ascending): the new array `merged`
\* and the heap it leaves.
mergeSortedUpdates(heap, current, updates, ascending) ==
  MergeLoop(heap, current, updates, ascending, 1, 1, <<>>)

\* BybitOrderBookManager.processSnapshot(pair, snapshot).  The TypeError of
\* an unknown pair (orderBook is undefined) or of a null entry leaves what
\* the statements before it assigned.
MergeProcessSnapshot(books, heap, pair, snapshot) ==
  LET b == OrEmpty(snapshot, "b")
      a == OrEmpty(snapshot, "a")
  IN
  IF pair \notin DOMAIN books \/ MapThrows(b) THEN
    [out |-> "TypeError", books |-> books, heap |-> heap]
  ELSE
    LET h1 == Alloc(heap, MapParse(b))
        b1 == [books EXCEPT ![pair].bids = NewRefs(heap, Len(b))]
    IN
    IF MapThrows(a) THEN [out |-> "TypeError", books |-> b1, heap |-> h1]
    ELSE [out |-> "ok",
          books |-> [b1 EXCEPT ![pair].asks = NewRefs(h1, Len(a))],
          heap |-> Alloc(h1, MapParse(a))]

\* The side of processDelta with a test of the batch's order before the merge.
MergeDeltaSideChecked(books, heap, pair, delta, f, side, ascending) ==
  IF ~NonEmpty(delta, f) THEN [out |-> "ok", books |-> books, heap |-> heap]
  ELSE IF MapThrows(delta[f]) \/ pair \notin DOMAIN books THEN
    [out |-> "TypeError", books |-> books, heap |-> heap]
  ELSE IF \E k \in 1..(Len(delta[f]) - 1) :
            ~Gt0(Cmp(MapParse(delta[f]), k + 1, k, ascending)) THEN
    [out |-> "Error", books |-> books, heap |-> heap]
  ELSE
    LET h1 == Alloc(heap, MapParse(delta[f]))
        r  == mergeSortedUpdates(h1, books[pair][side],
                                 NewRefs(heap, Len(delta[f])), ascending)
    IN [out |-> "ok",
        books |-> [books EXCEPT ![pair][side] = r.merged],
        heap |-> r.heap]
\* The side of processDelta assigning the empty list when the batch names none.
MergeDeltaSideOrEmpty(books, heap, pair, delta, f, side, ascending) ==
  IF pair \notin DOMAIN books THEN [out |-> "TypeError", books |-> books, heap |-> heap]
  ELSE IF ~NonEmpty(delta, f) THEN
    [out |-> "ok", books |-> [books EXCEPT ![pair][side] = <<>>], heap |-> heap]
  ELSE IF MapThrows(delta[f]) THEN [out |-> "TypeError", books |-> books, heap |-> heap]
  ELSE
    LET h1 == Alloc(heap, MapParse(delta[f]))
        r  == mergeSortedUpdates(h1, books[pair][side],
                                 NewRefs(heap, Len(delta[f])), ascending)
    IN [out |-> "ok",
        books |-> [books EXCEPT ![pair][side] = r.merged],
        heap |-> r.heap]
\* One side of BybitOrderBookManager.processDelta: the if-statement on
\* delta.b (side "bids", descending) or delta.a (side "asks", ascending).
MergeDeltaSide(books, heap, pair, delta, f, side, ascending) ==
  IF ~NonEmpty(delta, f) THEN [out |-> "ok", books |-> books, heap |-> heap]
  ELSE IF MapThrows(delta[f]) \/ pair \notin DOMAIN books THEN
    [out |-> "TypeError", books |-> books, heap |-> heap]
  ELSE
    LET h1 == Alloc(heap, MapParse(delta[f]))
        r  == mergeSortedUpdates(h1, books[pair][side],
                                 NewRefs(heap, Len(delta[f])), ascending)
    IN [out |-> "ok",
        books |-> [books EXCEPT ![pair][side] = r.merged],
        heap |-> r.heap]

\* BybitOrderBookManager.processDelta(pair, delta): bids, then asks.
MergeProcessDelta(books, heap, pair, delta) ==
  LET r1 == MergeDeltaSide(books, heap, pair, delta, "b", "bids", FALSE) IN
  IF r1.out # "ok" THEN r1
  ELSE MergeDeltaSide(r1.books, r1.heap, pair, delta, "a", "asks", TRUE)

\* No result: what a call that throws hands back.
NoMergeResult == [buyOrderBook |-> <<>>, sellOrderBook |-> <<>>]

\* BybitOrderBookManager.getOrderBook(pair, depth).
MergeGetOrderBook(books, pair, depth) ==
  IF pair \notin DOMAIN books THEN [out |-> "TypeError", result |-> NoMergeResult]
  ELSE [out |-> "ok",
        result |-> [buyOrderBook  |-> Slice(books[pair].bids, depth),
                    sellOrderBook |-> Slice(books[pair].asks, depth)]]

\* --------------------------------------------------------- the tree manager

\* An RBTree (package bintrees) is held as the sequence of its data items
\* [price, size] in comparator order, which is the order its iterator yields.
\* The comparators of initialize: (a, b) => b[0] - a[0] for bids
\* (ascending = FALSE), (a, b) => a[0] - b[0] for asks (ascending = TRUE).
Comparator(a, b, ascending) ==
  IF ascending THEN Minus(a[1], b[1]) ELSE Minus(b[1], a[1])

\* tree.find([price]): the positions of the item the comparator calls equal.
TreeFind(tree, price, ascending) ==
  {k \in 1..Len(tree) : Comparator(tree[k], <<price>>, ascending) = 0}

\* tree.remove(data): the item equal to data is taken out; nothing happens
\* (remove returns false) when there is none.
TreeRemove(tree, price, ascending) ==
  LET found == TreeFind(tree, price, ascending) IN
  IF found = {} THEN tree
  ELSE LET k == CHOOSE x \in found : TRUE
       IN SubSeq(tree, 1, k - 1) \o SubSeq(tree, k + 1, Len(tree))

\* tree.insert(data): nothing happens (insert returns false) when an item
\* equal to data is in the tree; otherwise data goes to its place in order.
TreeInsert(tree, data, ascending) ==
  IF TreeFind(tree, data[1], ascending) # {} THEN tree
  ELSE LET before == {k \in 1..Len(tree) : Lt0(Comparator(tree[k], data, ascending))}
           n == Cardinality(before)
       IN SubSeq(tree, 1, n) \o <<data>> \o SubSeq(tree, n + 1, Len(tree))

RECURSIVE TreeInsertAll(_, _, _)
\* (snapshot.b || []).forEach(([p, q]) => tree.insert([Number(p), Number(q)]))
\* The TypeError of a null entry ends the loop with the earlier entries in.
TreeInsertAll(tree, list, ascending) ==
  IF list = <<>> THEN [out |-> "ok", tree |-> tree]
  ELSE IF IsNull(Head(list)) THEN [out |-> "TypeError", tree |-> tree]
  ELSE TreeInsertAll(TreeInsert(tree, ParseEntry(Head(list)), ascending),
                     Tail(list), ascending)

\* processSnapshot clearing the trees of every instrument.
TreeProcessSnapshotClearAll(books, pair, snapshot) ==
  IF pair \notin DOMAIN books THEN [out |-> "TypeError", books |-> books]
  ELSE
    LET cleared == [p \in DOMAIN books |-> [bids |-> <<>>, asks |-> <<>>]]
        rb == TreeInsertAll(<<>>, OrEmpty(snapshot, "b"), FALSE)
        ra == TreeInsertAll(<<>>, OrEmpty(snapshot, "a"), TRUE)
    IN IF rb.out # "ok"
         THEN [out |-> "TypeError",
               books |-> [cleared EXCEPT ![pair] = [bids |-> rb.tree, asks |-> <<>>]]]
         ELSE [out |-> ra.out,
               books |-> [cleared EXCEPT ![pair] = [bids |-> rb.tree, asks |-> ra.tree]]]
\* processSnapshot without the two clear() calls.
TreeProcessSnapshotNoClear(books, pair, snapshot) ==
  IF pair \notin DOMAIN books THEN [out |-> "TypeError", books |-> books]
  ELSE
    LET rb == TreeInsertAll(books[pair].bids, OrEmpty(snapshot, "b"), FALSE)
        ra == TreeInsertAll(books[pair].asks, OrEmpty(snapshot, "a"), TRUE)
    IN IF rb.out # "ok"
         THEN [out |-> "TypeError", books |-> [books EXCEPT ![pair].bids = rb.tree]]
         ELSE [out |-> ra.out,
               books |-> [books EXCEPT ![pair] = [bids |-> rb.tree, asks |-> ra.tree]]]
\* OrderBookManager.processSnapshot(pair, snapshot): both trees are cleared,
\* then the bids are inserted, then the asks.
TreeProcessSnapshot(books, pair, snapshot) ==
  IF pair \notin DOMAIN books THEN [out |-> "TypeError", books |-> books]
  ELSE
    LET rb == TreeInsertAll(<<>>, OrEmpty(snapshot, "b"), FALSE) IN
    IF rb.out # "ok" THEN
      [out |-> "TypeError",
       books |-> [books EXCEPT ![pair] = [bids |-> rb.tree, asks |-> <<>>]]]
    ELSE
      LET ra == TreeInsertAll(<<>>, OrEmpty(snapshot, "a"), TRUE) IN
      [out |-> ra.out,
       books |-> [books EXCEPT ![pair] = [bids |-> rb.tree, asks |-> ra.tree]]]

\* The callback without the branch of size 0.
TreeApplyUpdateAsUpsert(tree, price, size, ascending) ==
  TreeInsert(TreeRemove(tree, price, ascending), <<price, size>>, ascending)
\* The body of the forEach callbacks of processDelta for one parsed entry:
\* size 0 removes the price, any other size removes the existing item and
\* inserts the new one.
TreeApplyUpdate(tree, price, size, ascending) ==
  IF size = 0 THEN TreeRemove(tree, price, ascending)
  ELSE TreeInsert(TreeRemove(tree, price, ascending), <<price, size>>, ascending)

RECURSIVE TreeApplyAll(_, _, _)
\* delta.b.forEach(...) on a tree: the TypeError of a null entry ends the loop
\* with the earlier entries applied.
TreeApplyAll(tree, list, ascending) ==
  IF list = <<>> THEN [out |-> "ok", tree |-> tree]
  ELSE IF IsNull(Head(list)) THEN [out |-> "TypeError", tree |-> tree]
  ELSE LET e == ParseEntry(Head(list)) IN
       TreeApplyAll(TreeApplyUpdate(tree, e[1], e[2], ascending),
                    Tail(list), ascending)

\* One side of OrderBookManager.processDelta.  With an unknown pair the first
\* use of orderBook in the callback throws.
TreeDeltaSide(books, pair, delta, f, side, ascending) ==
  IF ~NonEmpty(delta, f) THEN [out |-> "ok", books |-> books]
  ELSE IF pair \notin DOMAIN books THEN [out |-> "TypeError", books |-> books]
  ELSE LET r == TreeApplyAll(books[pair][side], delta[f], ascending) IN
       [out |-> r.out, books |-> [books EXCEPT ![pair][side] = r.tree]]

\* OrderBookManager.processDelta(pair, delta): bids, then asks, then
\* this.stats.bookSize = orderBook.bids.size, which throws for an unknown pair.
TreeProcessDelta(books, pair, delta) ==
  LET r1 == TreeDeltaSide(books, pair, delta, "b", "bids", FALSE) IN
  IF r1.out # "ok" THEN r1
  ELSE LET r2 == TreeDeltaSide(r1.books, pair, delta, "a", "asks", TRUE) IN
       IF r2.out # "ok" THEN r2
       ELSE IF pair \notin DOMAIN books THEN [out |-> "TypeError", books |-> books]
       ELSE r2

NoTreeResult == [bids |-> <<>>, asks |-> <<>>]

RECURSIVE TreeCollectInclusive(_, _, _, _)
\* The loop with i <= depth for i < depth.
TreeCollectInclusive(tree, depth, i, out) ==
  IF i <= depth /\ i + 1 <= Len(tree)
    THEN TreeCollectInclusive(tree, depth, i + 1,
           Append(out, [price |-> tree[i + 1][1], size |-> tree[i + 1][2]]))
    ELSE out

RECURSIVE TreeCollect(_, _, _, _)
\* for (let i = 0; i < depth && item; i++) { out.push({price, size}); item = it.next(); }
\* i is the loop counter; the iterator stands at item i + 1 of the order.
TreeCollect(tree, depth, i, out) ==
  IF i < depth /\ i + 1 <= Len(tree)
    THEN TreeCollect(tree, depth, i + 1,
                     Append(out, [price |-> tree[i + 1][1], size |-> tree[i + 1][2]]))
    ELSE out

\* OrderBookManager.getOrderBook(pair, depth), without the ts field.
TreeGetOrderBook(books, pair, depth) ==
  IF pair \notin DOMAIN books THEN [out |-> "TypeError", result |-> NoTreeResult]
  ELSE [out |-> "ok",
        result |-> [bids |-> TreeCollect(books[pair].bids, depth, 0, <<>>),
                    asks |-> TreeCollect(books[pair].asks, depth, 0, <<>>)]]

\* ------------------------------------------------------------------- state

VARIABLES
  mOrderBooks,  \* merge manager: this.orderBooks, pair -> [bids, asks], lists of references
  heap,         \* the level objects [price, size] the merge manager's lists refer to
  tOrderBooks,  \* tree manager: this.orderBooks, pair -> [bids, asks], trees
  last,         \* the last call: its name, pair, outcome in each manager, and results
  held,         \* the getOrderBook results a caller has kept
  synced,       \* history: the pairs with a completed processSnapshot since initialize
  probe,        \* history: the arguments and the books before one recorded call
  events,       \* the number of events the unconstrained feed has delivered
  passed,       \* history: the identifiers initialize has been called with
  task          \* the 'update' handler in progress and what the readers have seen

vars == <<mOrderBooks, heap, tOrderBooks, last, held, synced, probe, events, passed, task>>

\* The identifiers of the model, in a fixed order.  The programs initialize
\* 'ETHUSDT' only; the feed may name any of them.
PairSeq == <<"ETHUSDT", "BTCUSDT">>
Ids == {PairSeq[k] : k \in 1..Len(PairSeq)}

\* new Map()
EmptyMap == [x \in {} |-> 0]

\* The values of the levels of a merge book.
MergeView(books, hp, pair) ==
  [bids |-> Deref(hp, books[pair].bids), asks |-> Deref(hp, books[pair].asks)]

NoCall ==
  [op |-> "new", pair |-> "", mOut |-> "ok", tOut |-> "ok", depth |-> 0,
   mResult |-> NoMergeResult, tResult |-> NoTreeResult]
NoHeld == [has |-> FALSE, m |-> NoMergeResult, t |-> NoTreeResult]
NoProbe ==
  [done |-> FALSE, op |-> "", pair |-> "", arg |-> EmptyMap,
   mPre |-> [bids |-> <<>>, asks |-> <<>>], tPre |-> [bids |-> <<>>, asks |-> <<>>]]

\* No event in progress, nothing read yet.  whole holds the books, by value,
\* as the last completed call of the handler left them; bookSize is
\* stats.bookSize of the tree manager.
NoTask ==
  [pc |-> "idle", type |-> "", pair |-> "", data |-> EmptyMap, k |-> 0,
   whole |-> [m |-> EmptyMap, t |-> EmptyMap], bookSize |-> 0,
   read |-> "none", seen |-> [m |-> <<>>, t |-> <<>>]]

\* ------------------------------------------- object identity of the levels

RECURSIVE BookRefs(_, _)
\* The references the books hold, pair by pair from PairSeq[k] on.
BookRefs(books, k) ==
  IF k > Len(PairSeq) THEN <<>>
  ELSE (IF PairSeq[k] \in DOMAIN books
          THEN books[PairSeq[k]].bids \o books[PairSeq[k]].asks
          ELSE <<>>) \o BookRefs(books, k + 1)

RECURSIVE Dedup(_, _)
\* seq without repetitions, in the order of first occurrence.
Dedup(seq, seen) ==
  IF seq = <<>> THEN <<>>
  ELSE IF Head(seq) \in seen THEN Dedup(Tail(seq), seen)
  ELSE <<Head(seq)>> \o Dedup(Tail(seq), seen \cup {Head(seq)})

\* Garbage collection: the level objects that the books, the held result and
\* the result just returned can reach are kept, and numbered in the order they
\* are reached; an object no reference reaches is dropped.  The number of an
\* object is not observable by the program.
Compact(books, hp, heldM, res) ==
  LET roots == BookRefs(books, 1) \o heldM.buyOrderBook \o heldM.sellOrderBook
                 \o res.buyOrderBook \o res.sellOrderBook
      order == Dedup(roots, {})
      ren(r) == CHOOSE k \in 1..Len(order) : order[k] = r
      Ren(refs) == [k \in 1..Len(refs) |-> ren(refs[k])]
      RenRes(x) == [buyOrderBook |-> Ren(x.buyOrderBook),
                    sellOrderBook |-> Ren(x.sellOrderBook)]
  IN [heap  |-> [k \in 1..Len(order) |-> hp[order[k]]],
      books |-> [p \in DOMAIN books |->
                   [bids |-> Ren(books[p].bids), asks |-> Ren(books[p].asks)]],
      held  |-> RenRes(heldM),
      res   |-> RenRes(res)]

\* The state a call leaves, after garbage collection.
Commit(mb, hp, tb, hd, lst, sy) ==
  \E c \in {Compact(mb, hp, hd.m, lst.mResult)} :
    /\ mOrderBooks' = c.books
    /\ heap' = c.heap
    /\ tOrderBooks' = tb
    /\ held' = [hd EXCEPT !.m = c.held]
    /\ last' = [lst EXCEPT !.mResult = c.res]
    /\ synced' = sy

Init ==
  /\ mOrderBooks = EmptyMap
  /\ heap = <<>>
  /\ tOrderBooks = EmptyMap
  /\ last = NoCall
  /\ held = NoHeld
  /\ synced = {}
  /\ probe = NoProbe
  /\ events = 0
  /\ passed = {}
  /\ task = NoTask

\* ----------------------------------------------------------------- actions

\* The value of an entry that initialize sets.
EmptyBook == [bids |-> <<>>, asks |-> <<>>]
\* initialize with a new Map in place of this.orderBooks.
SetAllFresh(books, pairs) == [p \in pairs |-> [bids |-> <<>>, asks |-> <<>>]]
\* initialize(pairs), the forEach with orderBooks.set(pair, ...).
SetAll(books, pairs) ==
  [p \in (DOMAIN books) \cup pairs |-> IF p \in pairs THEN EmptyBook ELSE books[p]]

\* initialize(pairs) in both managers: every pair named gets an empty book.
Initialize(pairs) ==
  /\ Commit(SetAll(mOrderBooks, pairs), heap, SetAll(tOrderBooks, pairs), held,
            [NoCall EXCEPT !.op = "initialize"], synced \ pairs)
  /\ passed' = passed \cup pairs

\* processSnapshot(pair, snapshot) in both managers.
ProcessSnapshot(pair, snapshot) ==
  \E m \in {MergeProcessSnapshot(mOrderBooks, heap, pair, snapshot)},
     t \in {TreeProcessSnapshot(tOrderBooks, pair, snapshot)} :
    /\ Commit(m.books, m.heap, t.books, held,
              [NoCall EXCEPT !.op = "processSnapshot", !.pair = pair,
                             !.mOut = m.out, !.tOut = t.out],
              IF m.out = "ok" /\ t.out = "ok" THEN synced \cup {pair} ELSE synced)
    /\ UNCHANGED passed

\* processDelta(pair, delta) in both managers.
ProcessDelta(pair, delta) ==
  \E m \in {MergeProcessDelta(mOrderBooks, heap, pair, delta)},
     t \in {TreeProcessDelta(tOrderBooks, pair, delta)} :
    /\ Commit(m.books, m.heap, t.books, held,
              [NoCall EXCEPT !.op = "processDelta", !.pair = pair,
                             !.mOut = m.out, !.tOut = t.out],
              synced)
    /\ UNCHANGED passed

\* The depth parameter: depthArg is <<>> when the caller passes none.
DepthOf(depthArg) == IF depthArg = <<>> THEN DefaultDepth ELSE depthArg[1]

\* getOrderBook(pair, depth) in both managers; the results are handed to the
\* caller.
GetOrderBook(pair, depthArg) ==
  \E m \in {MergeGetOrderBook(mOrderBooks, pair, DepthOf(depthArg))},
     t \in {TreeGetOrderBook(tOrderBooks, pair, DepthOf(depthArg))} :
    /\ Commit(mOrderBooks, heap, tOrderBooks, held,
              [op |-> "getOrderBook", pair |-> pair, mOut |-> m.out, tOut |-> t.out,
               depth |-> DepthOf(depthArg), mResult |-> m.result, tResult |-> t.result],
              synced)
    /\ UNCHANGED passed

\* The 'update' handler for data.type === 'delta':
\*   orderBookManager.processDelta(pair, data.data);
\*   orderBookManager.getOrderBook(pair);
\* A TypeError of processDelta ends the handler before the query.
OnDelta(pair, delta) ==
  \E m \in {MergeProcessDelta(mOrderBooks, heap, pair, delta)},
     t \in {TreeProcessDelta(tOrderBooks, pair, delta)} :
    \E mq \in {IF m.out = "ok" THEN MergeGetOrderBook(m.books, pair, DefaultDepth)
                               ELSE [out |-> m.out, result |-> NoMergeResult]},
       tq \in {IF t.out = "ok" THEN TreeGetOrderBook(t.books, pair, DefaultDepth)
                               ELSE [out |-> t.out, result |-> NoTreeResult]} :
      /\ Commit(m.books, m.heap, t.books, held,
                [op |-> "processDelta", pair |-> pair, mOut |-> mq.out, tOut |-> tq.out,
                 depth |-> DefaultDepth, mResult |-> mq.result, tResult |-> tq.result],
                synced)
      /\ UNCHANGED passed

\* ------------------------------------------------------------ the feed

Prices == 1..MaxPrice

RECURSIVE Ranked(_, _)
\* The prices of S from the best to the worst: increasing for asks
\* (ascending), decreasing for bids.
Ranked(S, ascending) ==
  IF S = {} THEN <<>>
  ELSE LET x == IF ascending THEN CHOOSE m \in S : \A y \in S : m <= y
                             ELSE CHOOSE m \in S : \A y \in S : m >= y
       IN <<x>> \o Ranked(S \ {x}, ascending)

\* The raw lists the feed sends for one side: distinct prices, sorted toward
\* the best price, numerals as strings.
FeedLists(ascending, sizes) ==
  UNION {{[k \in 1..Cardinality(S) |->
             RawPair(Str(Ranked(S, ascending)[k]), Str(f[Ranked(S, ascending)[k]]))]
          : f \in [S -> sizes]}
         : S \in {T \in SUBSET Prices : Cardinality(T) <= MaxBatch}}

\* The events {b, a} with lists from bl and al, MaxBatch entries at most.
EventsOf(bl, al) ==
  {[b |-> x[1], a |-> x[2]] : x \in {y \in bl \X al : Len(y[1]) + Len(y[2]) <= MaxBatch}}

\* Snapshot events of the feed: every size is positive.
FeedSnapshots == EventsOf(FeedLists(FALSE, 1..MaxSize), FeedLists(TRUE, 1..MaxSize))
\* Delta events of the feed: size 0 removes a level.
FeedDeltas == EventsOf(FeedLists(FALSE, 0..MaxSize), FeedLists(TRUE, 0..MaxSize))

\* The depth arguments of a query: none, or 0..MaxDepth.
DepthArgs == {<<>>} \cup {<<k>> : k \in 0..MaxDepth}

\* orderBookManager.initialize(['ETHUSDT'])
FeedInitialize ==
  /\ Initialize({"ETHUSDT"})
  /\ UNCHANGED <<probe, events, task>>

\* ws.on('update'), data.type === 'snapshot'
FeedSnapshot ==
  /\ \E pair \in DOMAIN mOrderBooks, snapshot \in FeedSnapshots :
       ProcessSnapshot(pair, snapshot)
  /\ UNCHANGED <<probe, events, task>>

\* ws.on('update'), data.type === 'delta'
FeedDelta ==
  /\ \E pair \in DOMAIN mOrderBooks, delta \in FeedDeltas :
       OnDelta(pair, delta)
  /\ UNCHANGED <<probe, events, task>>

Next == FeedInitialize \/ FeedSnapshot \/ FeedDelta

\* The programs as wired, under a feed that keeps its contract.
Spec == Init /\ [][Next]_vars

\* One recorded call: the arguments and the books of the pair before it.
Recorded(op, pair, arg) ==
  [done |-> TRUE, op |-> op, pair |-> pair, arg |-> arg,
   mPre |-> MergeView(mOrderBooks, heap, pair), tPre |-> tOrderBooks[pair]]

\* A processDelta call on its own, recorded.
ProbeDelta ==
  /\ ~probe.done
  /\ \E pair \in DOMAIN mOrderBooks, delta \in FeedDeltas :
       /\ ProcessDelta(pair, delta)
       /\ probe' = Recorded("processDelta", pair, delta)
  /\ UNCHANGED <<events, task>>

\* A getOrderBook call with any depth argument, recorded.
ProbeQuery ==
  /\ ~probe.done
  /\ \E pair \in DOMAIN mOrderBooks, depthArg \in DepthArgs :
       /\ GetOrderBook(pair, depthArg)
       /\ probe' = Recorded("getOrderBook", pair, EmptyMap)
  /\ UNCHANGED <<events, task>>

NextProbe == (~probe.done /\ Next) \/ ProbeDelta \/ ProbeQuery

\* The programs under the feed, then one recorded call of the interface.
SpecProbe == Init /\ [][NextProbe]_vars

\* ------------------------------------------- a feed that breaks its contract

\* Numeric entries: any price, any size, 0 included.
NumericEntries == {RawPair(Str(p), Str(q)) : p \in Prices, q \in 0..MaxSize}

\* The lists of at most MaxBatch entries from E, in any order, repetitions
\* included.
ListsOf(E) == UNION {[1..n -> E] : n \in 0..MaxBatch}

\* Snapshot events with numeric lists in any order.
AnySnapshots == EventsOf(ListsOf(NumericEntries), ListsOf(NumericEntries))

\* One more call may be made.
CountCall == events < MaxEvents /\ events' = events + 1

AnyInitialize ==
  /\ Initialize({"ETHUSDT"})
  /\ UNCHANGED <<probe, events, task>>

\* processSnapshot with a snapshot whose lists are in any order.
AnySnapshot ==
  /\ CountCall
  /\ \E pair \in DOMAIN mOrderBooks, snapshot \in AnySnapshots :
       ProcessSnapshot(pair, snapshot)
  /\ UNCHANGED <<probe, task>>

\* processDelta with batches sorted by rank.
SortedDelta ==
  /\ CountCall
  /\ \E pair \in DOMAIN mOrderBooks, delta \in FeedDeltas :
       ProcessDelta(pair, delta)
  /\ UNCHANGED <<probe, task>>

NextAny == AnyInitialize \/ AnySnapshot \/ SortedDelta

\* The managers under any numeric snapshot and sorted delta batches.
SpecAny == Init /\ [][NextAny]_vars

\* Delta lists that may hold an entry that cannot be destructured.
FaultyLists == ListsOf(NumericEntries \cup {NullEntry})

\* Delta events with either list missing, empty, or faulty.
FaultyDeltas ==
  EventsOf(FaultyLists, FaultyLists)
    \cup {[b |-> x] : x \in FaultyLists} \cup {[a |-> x] : x \in FaultyLists}
    \cup {EmptyMap}

FaultInitialize ==
  /\ Initialize({"ETHUSDT"})
  /\ UNCHANGED <<probe, events, task>>

\* processSnapshot for any identifier, the snapshot as the feed sends it.
FaultSnapshot ==
  /\ CountCall
  /\ \E pair \in Ids, snapshot \in FeedSnapshots \cup {EmptyMap} :
       ProcessSnapshot(pair, snapshot)
  /\ UNCHANGED <<probe, task>>

\* processDelta for any identifier with any delta.
FaultDelta ==
  /\ CountCall
  /\ \E pair \in Ids, delta \in FaultyDeltas : ProcessDelta(pair, delta)
  /\ UNCHANGED <<probe, task>>

\* getOrderBook for any identifier.
FaultQuery ==
  /\ CountCall
  /\ \E pair \in Ids, depthArg \in DepthArgs : GetOrderBook(pair, depthArg)
  /\ UNCHANGED <<probe, task>>

NextFault == FaultInitialize \/ FaultSnapshot \/ FaultDelta \/ FaultQuery

\* The managers called for known and unknown identifiers, with faulty deltas.
SpecFault == Init /\ [][NextFault]_vars

\* ------------------------------------------------ a caller that keeps a result

HoldInitialize ==
  /\ Initialize({"ETHUSDT"})
  /\ UNCHANGED <<probe, events, task>>

HoldSnapshot ==
  /\ CountCall
  /\ \E pair \in DOMAIN mOrderBooks, snapshot \in FeedSnapshots :
       ProcessSnapshot(pair, snapshot)
  /\ UNCHANGED <<probe, task>>

HoldDelta ==
  /\ CountCall
  /\ \E pair \in DOMAIN mOrderBooks, delta \in FeedDeltas :
       ProcessDelta(pair, delta)
  /\ UNCHANGED <<probe, task>>

\* const r = manager.getOrderBook(pair, depth): the caller keeps the results.
QueryAndKeep ==
  /\ ~held.has
  /\ \E pair \in DOMAIN mOrderBooks, depthArg \in DepthArgs :
       \E m \in {MergeGetOrderBook(mOrderBooks, pair, DepthOf(depthArg))},
          t \in {TreeGetOrderBook(tOrderBooks, pair, DepthOf(depthArg))} :
         Commit(mOrderBooks, heap, tOrderBooks,
                [has |-> TRUE, m |-> m.result, t |-> t.result],
                [op |-> "getOrderBook", pair |-> pair, mOut |-> m.out, tOut |-> t.out,
                 depth |-> DepthOf(depthArg), mResult |-> m.result,
                 tResult |-> t.result],
                synced)
  /\ UNCHANGED <<probe, events, task, passed>>

\* The lists of the kept results: side is "buy" or "sell".
HeldMerge(side) == IF side = "buy" THEN held.m.buyOrderBook ELSE held.m.sellOrderBook
HeldTree(side) == IF side = "buy" THEN held.t.bids ELSE held.t.asks
WithMerge(side, list) ==
  IF side = "buy" THEN [held.m EXCEPT !.buyOrderBook = list]
                  ELSE [held.m EXCEPT !.sellOrderBook = list]
WithTree(side, list) ==
  IF side = "buy" THEN [held.t EXCEPT !.bids = list] ELSE [held.t EXCEPT !.asks = list]

CallerMutation == [NoCall EXCEPT !.op = "callerMutation"]

\* The caller overwrites the price (field 1) or the size (field 2) of the
\* k-th level of a kept list: r.buyOrderBook[k][field] = v on the merge
\* manager's result, r.bids[k].price = v or r.bids[k].size = v on the tree
\* manager's.
CallerWrite ==
  /\ held.has
  /\ CountCall
  /\ \E side \in {"buy", "sell"}, field \in {1, 2}, v \in 0..MaxSize :
       \E k \in 1..Len(HeldMerge(side)) :
         Commit(mOrderBooks,
                [heap EXCEPT ![HeldMerge(side)[k]][field] = v],
                tOrderBooks,
                [held EXCEPT !.t =
                   WithTree(side,
                     IF k <= Len(HeldTree(side))
                       THEN [HeldTree(side) EXCEPT ![k] =
                               IF field = 1 THEN [@ EXCEPT !.price = v]
                                            ELSE [@ EXCEPT !.size = v]]
                       ELSE HeldTree(side))],
                CallerMutation, synced)
  /\ UNCHANGED <<probe, task, passed>>

\* The caller pushes a new level on a kept list.
CallerPush ==
  /\ held.has
  /\ CountCall
  /\ \E side \in {"buy", "sell"}, p \in Prices :
       Commit(mOrderBooks, Alloc(heap, <<<<p, 1>>>>), tOrderBooks,
              [held EXCEPT !.m = WithMerge(side, HeldMerge(side) \o NewRefs(heap, 1)),
                           !.t = WithTree(side, Append(HeldTree(side),
                                                       [price |-> p, size |-> 1]))],
              CallerMutation, synced)
  /\ UNCHANGED <<probe, task, passed>>

\* The caller removes the first entry of a kept list (shift).
CallerShift ==
  /\ held.has
  /\ CountCall
  /\ \E side \in {"buy", "sell"} :
       /\ Len(HeldMerge(side)) > 0 /\ Len(HeldTree(side)) > 0
       /\ Commit(mOrderBooks, heap, tOrderBooks,
                 [held EXCEPT !.m = WithMerge(side, Tail(HeldMerge(side))),
                              !.t = WithTree(side, Tail(HeldTree(side)))],
                 CallerMutation, synced)
  /\ UNCHANGED <<probe, task, passed>>

NextHold ==
  \/ HoldInitialize \/ HoldSnapshot \/ HoldDelta \/ QueryAndKeep
  \/ CallerWrite \/ CallerPush \/ CallerShift

\* The managers, and a caller that keeps one query result and changes it.
SpecHold == Init /\ [][NextHold]_vars

\* --------------------------------------------- a feed with malformed entries

\* The size strings of a raw pair: the numerals of the feed, a negative
\* numeral and a string that is no numeral.
SizeStrings == {Str(q) : q \in 1..MaxSize} \cup {<<"-", "1">>, <<"x">>}

\* Lists sorted toward the best price with distinct prices, as the feed sends
\* them, except that a size may be malformed.  The price is always a numeral:
\* a NaN price would make the comparator of the RBTree return NaN, for which
\* the package states no behaviour.
MalformedLists(ascending) ==
  UNION {{[k \in 1..Cardinality(S) |->
             RawPair(Str(Ranked(S, ascending)[k]), f[Ranked(S, ascending)[k]])]
          : f \in [S -> SizeStrings]}
         : S \in {T \in SUBSET Prices : Cardinality(T) <= MaxBatch}}

MalformedEvents == EventsOf(MalformedLists(FALSE), MalformedLists(TRUE))

MalInitialize ==
  /\ Initialize({"ETHUSDT"})
  /\ UNCHANGED <<probe, events, task>>

\* processSnapshot with sizes that may be malformed, recorded.
MalSnapshot ==
  /\ CountCall
  /\ \E pair \in DOMAIN mOrderBooks, snapshot \in MalformedEvents :
       /\ ProcessSnapshot(pair, snapshot)
       /\ probe' = Recorded("processSnapshot", pair, snapshot)
  /\ UNCHANGED task

\* processDelta with sizes that may be malformed, recorded.
MalDelta ==
  /\ CountCall
  /\ \E pair \in DOMAIN mOrderBooks, delta \in MalformedEvents :
       /\ ProcessDelta(pair, delta)
       /\ probe' = Recorded("processDelta", pair, delta)
  /\ UNCHANGED task

NextMalformed == MalInitialize \/ MalSnapshot \/ MalDelta

\* The managers under a feed whose sizes may be malformed.
SpecMalformed == Init /\ [][NextMalformed]_vars

\* ------------------------------------------------------- several instruments

\* Events with an entry that cannot be destructured.
NullEvents == {s \in EventsOf(FaultyLists, FaultyLists) : MapThrows(s.b) \/ MapThrows(s.a)}
\* Snapshot and delta events: those of the feed, and those that throw.
FaultySnapshots == FeedSnapshots \cup NullEvents
ThrowingDeltas == FeedDeltas \cup NullEvents

\* initialize(pairs) with any identifiers.
TwoInitialize ==
  /\ \E pairs \in (SUBSET Ids) \ {{}} : Initialize(pairs)
  /\ UNCHANGED <<probe, events, task>>

TwoSnapshot ==
  /\ CountCall
  /\ \E pair \in Ids, snapshot \in FaultySnapshots : ProcessSnapshot(pair, snapshot)
  /\ UNCHANGED <<probe, task>>

TwoDelta ==
  /\ CountCall
  /\ \E pair \in Ids, delta \in ThrowingDeltas : ProcessDelta(pair, delta)
  /\ UNCHANGED <<probe, task>>

TwoQuery ==
  /\ CountCall
  /\ \E pair \in Ids, depthArg \in DepthArgs : GetOrderBook(pair, depthArg)
  /\ UNCHANGED <<probe, task>>

NextTwo == TwoInitialize \/ TwoSnapshot \/ TwoDelta \/ TwoQuery

\* The managers with any set of instruments, called for any identifier.
SpecTwo == Init /\ [][NextTwo]_vars

\* -------------------------------------------------- a recorded snapshot load

\* processSnapshot with a snapshot whose lists are in any order, recorded.
LoadSnapshot ==
  /\ CountCall
  /\ \E pair \in DOMAIN mOrderBooks, snapshot \in AnySnapshots :
       /\ ProcessSnapshot(pair, snapshot)
       /\ probe' = Recorded("processSnapshot", pair, snapshot)
  /\ UNCHANGED task

NextLoad == AnyInitialize \/ LoadSnapshot \/ SortedDelta

\* The managers under any numeric snapshot, the last one recorded, and sorted
\* delta batches.
SpecLoad == Init /\ [][NextLoad]_vars

\* ---------------------------------------------- a recorded delta of any shape

\* Delta events with numeric lists in any order, either list possibly missing.
BatchDeltas ==
  AnySnapshots
    \cup {[b |-> x] : x \in ListsOf(NumericEntries)}
    \cup {[a |-> x] : x \in ListsOf(NumericEntries)}
    \cup {EmptyMap}

\* processDelta with a batch in any order, recorded.
BatchDelta ==
  /\ CountCall
  /\ \E pair \in DOMAIN mOrderBooks, delta \in BatchDeltas :
       /\ ProcessDelta(pair, delta)
       /\ probe' = Recorded("processDelta", pair, delta)
  /\ UNCHANGED task

NextBatch == HoldInitialize \/ HoldSnapshot \/ BatchDelta

\* The managers under snapshots of the feed and delta batches of any shape,
\* the last one recorded.
SpecBatch == Init /\ [][NextBatch]_vars

\* ------------------------------------------ the 'update' handler step by step

\* The callbacks of one program run one at a time, each to its end: the
\* handler of 'update' has no await, so the callback of setInterval starts
\* only when no handler is running.
TimerAnyTime == TRUE
TimerReady == task.pc = "idle"

\* One assignment of processSnapshot in the merge manager:
\* orderBook.bids = (snapshot.b || []).map(...), or the same for asks.
MergeSnapshotSide(books, hp, pair, snapshot, f, side) ==
  [books |-> [books EXCEPT ![pair][side] = NewRefs(hp, Len(OrEmpty(snapshot, f)))],
   heap |-> Alloc(hp, MapParse(OrEmpty(snapshot, f)))]

\* The statement of the merge manager for one side of an event.
MergeSide(type, books, hp, pair, data, f, side, ascending) ==
  IF type = "snapshot" THEN MergeSnapshotSide(books, hp, pair, data, f, side)
  ELSE LET r == MergeDeltaSide(books, hp, pair, data, f, side, ascending)
       IN [books |-> r.books, heap |-> r.heap]

\* The callback of forEach in the tree manager for one raw entry of an event.
TreeEntry(type, books, pair, e, side, ascending) ==
  [books EXCEPT ![pair][side] =
     IF type = "snapshot" THEN TreeInsert(@, ParseEntry(e), ascending)
     ELSE TreeApplyUpdate(@, ParseEntry(e)[1], ParseEntry(e)[2], ascending)]

\* The number of bid entries of an event, and of all its entries.
BidCount(data) == Len(OrEmpty(data, "b"))
EntryCount(data) == Len(OrEmpty(data, "b")) + Len(OrEmpty(data, "a"))

\* The events of the feed, with their type.
FeedEvents ==
  {[type |-> "snapshot", data |-> s] : s \in FeedSnapshots}
    \cup {[type |-> "delta", data |-> d] : d \in FeedDeltas}

\* orderBookManager.initialize(['ETHUSDT']), once, before the handler and the
\* timer are set.
StepInitialize ==
  /\ passed = {}
  /\ Initialize({"ETHUSDT"})
  /\ task' = [task EXCEPT !.whole = [m |-> SetAll(mOrderBooks, {"ETHUSDT"}),
                                      t |-> SetAll(tOrderBooks, {"ETHUSDT"})]]
  /\ UNCHANGED <<probe, events>>

\* ws.on('update'): the handler is entered with an event for pair.
Arrive ==
  /\ task.pc = "idle"
  /\ CountCall
  /\ \E pair \in DOMAIN mOrderBooks, ev \in FeedEvents :
       /\ Commit(mOrderBooks, heap, tOrderBooks, held,
                 [NoCall EXCEPT !.op = "update", !.pair = pair], synced)
       /\ task' = [task EXCEPT !.pc = "busy", !.type = ev.type, !.pair = pair,
                               !.data = ev.data, !.k = 0 - 1, !.read = "none",
                               !.seen = NoTask.seen]
  /\ UNCHANGED <<probe, passed>>

\* The next statements of processSnapshot / processDelta.  Step 0 is the two
\* clear() calls of the tree manager's processSnapshot; step k >= 1 is the
\* forEach callback of the tree manager for entry k of the event (the bids,
\* then the asks).  The merge manager assigns its bids in the step that ends
\* the bid entries and its asks in the step that ends the entries.
Step ==
  /\ task.pc = "busy"
  /\ task.k < EntryCount(task.data)
  /\ LET k == task.k + 1
         pair == task.pair
         nb == BidCount(task.data)
         tb == IF k = 0 THEN
                 (IF task.type = "snapshot"
                    THEN [tOrderBooks EXCEPT ![pair] = EmptyBook] ELSE tOrderBooks)
               ELSE IF k <= nb THEN
                 TreeEntry(task.type, tOrderBooks, pair, task.data.b[k], "bids", FALSE)
               ELSE
                 TreeEntry(task.type, tOrderBooks, pair, task.data.a[k - nb], "asks", TRUE)
         m0 == [books |-> mOrderBooks, heap |-> heap]
         m1 == IF k = nb
                 THEN MergeSide(task.type, m0.books, m0.heap, pair, task.data, "b", "bids", FALSE)
                 ELSE m0
         m2 == IF k = EntryCount(task.data)
                 THEN MergeSide(task.type, m1.books, m1.heap, pair, task.data, "a", "asks", TRUE)
                 ELSE m1
     IN Commit(m2.books, m2.heap, tb, held,
               [NoCall EXCEPT !.op = "update", !.pair = pair], synced)
  /\ task' = [task EXCEPT !.k = task.k + 1]
  /\ UNCHANGED <<probe, events, passed>>

\* The end of the handler: this.stats.bookSize = orderBook.bids.size in the
\* tree manager, and after processDelta the call getOrderBook(pair).
Finish ==
  /\ task.pc = "busy"
  /\ task.k = EntryCount(task.data)
  /\ \E mq \in {MergeGetOrderBook(mOrderBooks, task.pair, DefaultDepth)},
        tq \in {TreeGetOrderBook(tOrderBooks, task.pair, DefaultDepth)} :
       /\ Commit(mOrderBooks, heap, tOrderBooks, held,
                 IF task.type = "delta"
                   THEN [op |-> "processDelta", pair |-> task.pair, mOut |-> mq.out,
                         tOut |-> tq.out, depth |-> DefaultDepth,
                         mResult |-> mq.result, tResult |-> tq.result]
                   ELSE [NoCall EXCEPT !.op = "processSnapshot", !.pair = task.pair],
                 IF task.type = "snapshot" THEN synced \cup {task.pair} ELSE synced)
       /\ task' = [NoTask EXCEPT
                     !.whole = [m |-> [p \in DOMAIN mOrderBooks |->
                                         MergeView(mOrderBooks, heap, p)],
                                t |-> tOrderBooks],
                     !.bookSize = Len(tOrderBooks[task.pair].bids),
                     !.read = IF task.type = "delta" THEN "query" ELSE "none",
                     !.seen = IF task.type = "delta"
                                THEN [m |-> [buyOrderBook |-> Deref(heap, mq.result.buyOrderBook),
                                             sellOrderBook |-> Deref(heap, mq.result.sellOrderBook)],
                                      t |-> tq.result]
                                ELSE NoTask.seen]
  /\ UNCHANGED <<probe, events, passed>>

\* The callback of setInterval: the merge program prints
\* orderBooks.get('ETHUSDT').bids.length, the tree program stats.bookSize.
Timer ==
  /\ TimerReady
  /\ "ETHUSDT" \in DOMAIN mOrderBooks
  /\ task' = [task EXCEPT !.read = "timer",
                          !.seen = [m |-> Len(mOrderBooks["ETHUSDT"].bids),
                                    t |-> task.bookSize]]
  /\ UNCHANGED <<mOrderBooks, heap, tOrderBooks, last, held, synced, probe, events, passed>>

NextSteps == StepInitialize \/ Arrive \/ Step \/ Finish \/ Timer

\* The handler of 'update' statement by statement, and the timer.
SpecSteps == Init /\ [][NextSteps]_vars

\* ------------------------------------------------------------------ claims

\* Prices strictly increasing (ascending) or strictly decreasing along levels.
StrictlyRanked(levels, ascending) ==
  \A k \in 1..(Len(levels) - 1) :
    IF ascending THEN levels[k][1] < levels[k + 1][1]
                 ELSE levels[k][1] > levels[k + 1][1]
PositiveSizes(levels) == \A k \in 1..Len(levels) : levels[k][2] > 0
WellOrdered(book) ==
  /\ StrictlyRanked(book.bids, FALSE) /\ PositiveSizes(book.bids)
  /\ StrictlyRanked(book.asks, TRUE) /\ PositiveSizes(book.asks)

\* C1: under a feed whose snapshot lists and delta batches are sorted toward
\* the best price with distinct prices, and whose snapshot sizes are positive,
\* after every call the bids of every book are strictly decreasing in price,
\* the asks strictly increasing, and every stored size is positive, in the
\* merge manager and in the tree manager.
C1_OrderingInvariant ==
  \A pair \in DOMAIN mOrderBooks :
    /\ WellOrdered(MergeView(mOrderBooks, heap, pair))
    /\ WellOrdered(tOrderBooks[pair])

\* C1 witness: a delta has left three bids and two asks in both managers.
C1_Witness ==
  /\ last.op = "processDelta"
  /\ last.pair \in DOMAIN mOrderBooks
  /\ Len(mOrderBooks[last.pair].bids) = 3
  /\ Len(mOrderBooks[last.pair].asks) >= 2
  /\ Len(tOrderBooks[last.pair].bids) = 3
  /\ Len(tOrderBooks[last.pair].asks) >= 2

\* The prices a list of levels names.
PricesOf(levels) == {levels[k][1] : k \in 1..Len(levels)}
\* The levels of a list, as a set.
LevelSet(levels) == {levels[k] : k \in 1..Len(levels)}

RECURSIVE SortLevels(_, _)
\* The levels of S (distinct prices) from the best price to the worst.
SortLevels(S, ascending) ==
  IF S = {} THEN <<>>
  ELSE LET best == CHOOSE l \in S : \A o \in S :
                     IF ascending THEN l[1] <= o[1] ELSE l[1] >= o[1]
       IN <<best>> \o SortLevels(S \ {best}, ascending)

\* What a sorted side becomes under a sorted batch: the levels whose price the
\* batch does not name, and the batch entries of positive size, in rank order.
Patched(pre, updates, ascending) ==
  SortLevels({l \in LevelSet(pre) : l[1] \notin PricesOf(updates)}
               \cup {u \in LevelSet(updates) : u[2] > 0},
             ascending)

\* The recorded call is a processDelta.
DeltaRecorded == probe.done /\ probe.op = "processDelta"

\* C3: with the side and the batch sorted by rank with distinct prices, the
\* merge leaves exactly the levels of the side whose price the batch does not
\* name, plus every batch entry of size > 0, and no entry for a batch price of
\* size 0, all in rank order.
C3_MergeResult ==
  DeltaRecorded =>
    /\ last.mOut = "ok"
    /\ MergeView(mOrderBooks, heap, probe.pair).bids
         = Patched(probe.mPre.bids, MapParse(probe.arg.b), FALSE)
    /\ MergeView(mOrderBooks, heap, probe.pair).asks
         = Patched(probe.mPre.asks, MapParse(probe.arg.a), TRUE)

\* C3 witness: the example of the specification with prices 3, 2, 1 for 100,
\* 99, 98: bids [[3,2],[2,1]] with delta bids [[3,0],[1,2]] become
\* [[2,1],[1,2]].
C3_Witness ==
  /\ DeltaRecorded
  /\ probe.mPre.bids = <<<<3, 2>>, <<2, 1>>>>
  /\ MapParse(probe.arg.b) = <<<<3, 0>>, <<1, 2>>>>
  /\ MergeView(mOrderBooks, heap, probe.pair).bids = <<<<2, 1>>, <<1, 2>>>>

\* The levels of a side at the prices the batch does not name are those of
\* before; no price of a size-0 entry is left; a batch of size-0 entries only
\* leaves the side as it was, less the levels it names.
DeletionCorrect(pre, post, updates) ==
  /\ {l \in LevelSet(post) : l[1] \notin PricesOf(updates)}
       = {l \in LevelSet(pre) : l[1] \notin PricesOf(updates)}
  /\ \A k \in 1..Len(updates) :
       updates[k][2] = 0 => updates[k][1] \notin PricesOf(post)
  /\ (\A k \in 1..Len(updates) : updates[k][2] = 0) =>
       post = SelectSeq(pre, LAMBDA l : l[1] \notin PricesOf(updates))

\* C4: in both managers a delta entry of size 0 raises no error; for a price
\* that is not on the side it leaves the side unchanged; for a price on the
\* side it removes that level and leaves every other level unchanged.
C4_DeletionCorrectness ==
  DeltaRecorded =>
    /\ last.mOut = "ok" /\ last.tOut = "ok"
    /\ DeletionCorrect(probe.mPre.bids, MergeView(mOrderBooks, heap, probe.pair).bids,
                       MapParse(probe.arg.b))
    /\ DeletionCorrect(probe.mPre.asks, MergeView(mOrderBooks, heap, probe.pair).asks,
                       MapParse(probe.arg.a))
    /\ DeletionCorrect(probe.tPre.bids, tOrderBooks[probe.pair].bids,
                       MapParse(probe.arg.b))
    /\ DeletionCorrect(probe.tPre.asks, tOrderBooks[probe.pair].asks,
                       MapParse(probe.arg.a))

\* C4 witness: a delta whose asks delete the middle one of three levels and
\* name a price that is not on the side.
C4_Witness ==
  /\ DeltaRecorded
  /\ PricesOf(probe.tPre.asks) = {1, 2}
  /\ PricesOf(probe.mPre.asks) = {1, 2}
  /\ MapParse(probe.arg.a) = <<<<2, 0>>, <<3, 0>>>>
  /\ PricesOf(tOrderBooks[probe.pair].asks) = {1}
  /\ Len(mOrderBooks[probe.pair].asks) = 1

\* The levels the tree manager returns, as [price, size] pairs.
AsLevels(list) == [k \in 1..Len(list) |-> <<list[k].price, list[k].size>>]

\* C8: getOrderBook(pair, k) with k >= 0 returns on each side exactly the
\* first min(k, n) levels of the side, best first, n the number of levels of
\* the side: never more than k, and fewer only when the side has fewer.
C8_DepthBound ==
  (last.op = "getOrderBook" /\ last.pair \in DOMAIN mOrderBooks /\ last.depth >= 0) =>
    LET mv == MergeView(mOrderBooks, heap, last.pair)
        tv == tOrderBooks[last.pair]
        k == last.depth
    IN /\ last.mOut = "ok" /\ last.tOut = "ok"
       /\ Deref(heap, last.mResult.buyOrderBook) = SubSeq(mv.bids, 1, Min(k, Len(mv.bids)))
       /\ Deref(heap, last.mResult.sellOrderBook) = SubSeq(mv.asks, 1, Min(k, Len(mv.asks)))
       /\ AsLevels(last.tResult.bids) = SubSeq(tv.bids, 1, Min(k, Len(tv.bids)))
       /\ AsLevels(last.tResult.asks) = SubSeq(tv.asks, 1, Min(k, Len(tv.asks)))

\* C8 witness: a query of depth 2 on three bids returned the best two in both
\* managers, and the one ask there is.
C8_Witness ==
  /\ last.op = "getOrderBook" /\ last.depth = 2
  /\ last.pair \in DOMAIN mOrderBooks
  /\ Len(mOrderBooks[last.pair].bids) = 3
  /\ Len(mOrderBooks[last.pair].asks) = 1
  /\ Len(last.mResult.buyOrderBook) = 2 /\ Len(last.tResult.bids) = 2
  /\ Len(last.mResult.sellOrderBook) = 1 /\ Len(last.tResult.asks) = 1

\* The levels of every book of the merge manager, by value.
MergeBooks == [p \in DOMAIN mOrderBooks |-> MergeView(mOrderBooks, heap, p)]

\* C2: fed the same snapshot and the same delta batches, each batch sorted by
\* rank, the merge manager and the tree manager hold the same (price, size)
\* levels on the bid side and the same on the ask side after every step.
C2_MergeEquivalence ==
  \A pair \in DOMAIN mOrderBooks :
    /\ LevelSet(MergeBooks[pair].bids) = LevelSet(tOrderBooks[pair].bids)
    /\ LevelSet(MergeBooks[pair].asks) = LevelSet(tOrderBooks[pair].asks)

\* The calls of the interface that take an identifier.
PairCalls == {"processSnapshot", "processDelta", "getOrderBook"}

\* C5: processDelta on an initialized instrument that has had no
\* processSnapshot fails in both managers and leaves the bids and the asks of
\* the instrument empty.
C5_NotSynchronized ==
  (last.op = "processDelta" /\ last.pair \in DOMAIN mOrderBooks /\ last.pair \notin synced) =>
    /\ last.mOut # "ok" /\ last.tOut # "ok"
    /\ MergeBooks[last.pair] = EmptyBook
    /\ tOrderBooks[last.pair] = EmptyBook

\* C6: a processDelta call that throws leaves both sides of every book as
\* they were before the call, in the manager that threw.
C6_FailedDeltaAtomic ==
  [][last'.op = "processDelta" =>
       /\ last'.mOut # "ok" => MergeBooks' = MergeBooks
       /\ last'.tOut # "ok" => tOrderBooks' = tOrderBooks]_vars

\* C7: processSnapshot, processDelta and getOrderBook called with an
\* identifier that initialize never got fail in both managers, change no book
\* and add no entry to the store.
C7_UnknownInstrument ==
  [][(last'.op \in PairCalls /\ last'.pair \notin DOMAIN mOrderBooks) =>
       /\ last'.mOut # "ok" /\ last'.tOut # "ok"
       /\ MergeBooks' = MergeBooks
       /\ tOrderBooks' = tOrderBooks]_vars

\* C9: whatever the caller does to a result of getOrderBook, the books of the
\* store are unchanged.
C9_StoreNotCorruptible ==
  [][last'.op = "callerMutation" =>
       /\ MergeBooks' = MergeBooks
       /\ tOrderBooks' = tOrderBooks]_vars

\* The levels of the results the caller keeps, by value.
HeldView ==
  [buy |-> Deref(heap, held.m.buyOrderBook), sell |-> Deref(heap, held.m.sellOrderBook),
   bids |-> held.t.bids, asks |-> held.t.asks]

\* C10: no later processSnapshot or processDelta changes the levels (prices,
\* sizes, order, count) of a result getOrderBook has returned.
C10_ResultIsSnapshot ==
  [][(held.has /\ last'.op \in {"processSnapshot", "processDelta"}) =>
       HeldView' = HeldView]_vars

\* C10 witness: after a kept result a processDelta has replaced the size of
\* the best bid in both managers; the result still holds the size of before.
C10_Witness ==
  /\ held.has
  /\ last.op = "processDelta" /\ last.mOut = "ok" /\ last.tOut = "ok"
  /\ last.pair \in DOMAIN mOrderBooks
  /\ Len(HeldView.buy) > 0 /\ Len(HeldView.bids) > 0
  /\ Len(MergeBooks[last.pair].bids) > 0
  /\ MergeBooks[last.pair].bids[1][1] = HeldView.buy[1][1]
  /\ MergeBooks[last.pair].bids[1][2] # HeldView.buy[1][2]
  /\ tOrderBooks[last.pair].bids[1][1] = HeldView.bids[1].price
  /\ tOrderBooks[last.pair].bids[1][2] # HeldView.bids[1].size

\* No two levels of the list share a price.
UniquePrices(levels) ==
  \A j, k \in 1..Len(levels) : j # k => levels[j][1] # levels[k][1]

\* C11: after any processSnapshot or processDelta call, also when the
\* snapshot names a price more than once, no two levels on one side of a book
\* share a price, in either manager.
C11_UniquePriceKey ==
  \A pair \in DOMAIN mOrderBooks :
    /\ UniquePrices(MergeBooks[pair].bids) /\ UniquePrices(MergeBooks[pair].asks)
    /\ UniquePrices(tOrderBooks[pair].bids) /\ UniquePrices(tOrderBooks[pair].asks)

\* Every level of the list has a size other than 0.
NoZeroSize(levels) == \A k \in 1..Len(levels) : levels[k][2] # 0

\* C12: after any processSnapshot or processDelta call, a snapshot with a
\* pair of size 0 included, no side of any book holds a level of size 0, in
\* either manager.
C12_NoZeroSizeStored ==
  \A pair \in DOMAIN mOrderBooks :
    /\ NoZeroSize(MergeBooks[pair].bids) /\ NoZeroSize(MergeBooks[pair].asks)
    /\ NoZeroSize(tOrderBooks[pair].bids) /\ NoZeroSize(tOrderBooks[pair].asks)

\* A raw pair that does not parse as a numeric price and a numeric size >= 0.
MalformedPair(e) ==
  Number(e.p) = NaN \/ Number(e.q) = NaN \/ Number(e.q) < 0
HasMalformed(arg) ==
  \/ \E k \in 1..Len(OrEmpty(arg, "b")) : MalformedPair(arg.b[k])
  \/ \E k \in 1..Len(OrEmpty(arg, "a")) : MalformedPair(arg.a[k])

\* Every level of the list has a numeric price and a numeric size >= 0.
WellFormedLevels(levels) ==
  \A k \in 1..Len(levels) :
    levels[k][1] # NaN /\ levels[k][2] # NaN /\ levels[k][2] >= 0

\* C13: a processSnapshot or processDelta whose lists hold a pair that does
\* not parse as a numeric price and a numeric size >= 0 fails in both
\* managers, and no book ever holds a level with a non-numeric price, a
\* non-numeric size or a negative size.
C13_MalformedRejected ==
  /\ (probe.done /\ last.op = probe.op /\ HasMalformed(probe.arg)) =>
       (last.mOut # "ok" /\ last.tOut # "ok")
  /\ \A pair \in DOMAIN mOrderBooks :
       /\ WellFormedLevels(MergeBooks[pair].bids) /\ WellFormedLevels(MergeBooks[pair].asks)
       /\ WellFormedLevels(tOrderBooks[pair].bids) /\ WellFormedLevels(tOrderBooks[pair].asks)

\* C14: a processSnapshot, processDelta or getOrderBook call on one
\* instrument, whether it throws or not, leaves the bids and the asks of every
\* other instrument of the store as they were, in both managers.
C14_InstrumentIsolation ==
  [][last'.op \in PairCalls =>
       \A other \in (DOMAIN mOrderBooks) \ {last'.pair} :
         /\ other \in DOMAIN mOrderBooks' /\ other \in DOMAIN tOrderBooks'
         /\ MergeBooks'[other] = MergeBooks[other]
         /\ tOrderBooks'[other] = tOrderBooks[other]]_vars

\* C14 witness: two instruments are in the store, the last call threw in both
\* managers with the books of its instrument cleared by it, and the other
\* instrument holds levels.
C14_Witness ==
  /\ DOMAIN mOrderBooks = Ids
  /\ last.op = "processSnapshot" /\ last.mOut # "ok" /\ last.tOut # "ok"
  /\ \E other \in Ids \ {last.pair} :
       /\ MergeBooks[other].bids # <<>> /\ tOrderBooks[other].bids # <<>>
       /\ MergeBooks[other].asks # <<>> /\ tOrderBooks[other].asks # <<>>

\* C20: the store of each manager holds exactly the identifiers initialize
\* has been called with; processSnapshot, processDelta and getOrderBook add
\* none and remove none; and initialize gives every identifier it adds a book
\* with both sides empty.
C20_InstrumentSetFixed ==
  [][/\ DOMAIN mOrderBooks' = passed' /\ DOMAIN tOrderBooks' = passed'
     /\ last'.op \in PairCalls =>
          (DOMAIN mOrderBooks' = DOMAIN mOrderBooks /\ DOMAIN tOrderBooks' = DOMAIN tOrderBooks)
     /\ \A p \in passed' \ passed :
          MergeBooks'[p] = EmptyBook /\ tOrderBooks'[p] = EmptyBook]_vars

\* C20 witness: initialize was called with one identifier, its book holds
\* levels, and the last call named an identifier outside the store, which the
\* store still does not hold.
C20_Witness ==
  /\ passed = {"ETHUSDT"} /\ DOMAIN mOrderBooks = passed /\ DOMAIN tOrderBooks = passed
  /\ last.op \in PairCalls /\ last.pair = "BTCUSDT"
  /\ MergeBooks["ETHUSDT"].bids # <<>> /\ tOrderBooks["ETHUSDT"].bids # <<>>

\* The last call was a processSnapshot, whose arguments probe holds.
SnapshotRecorded ==
  probe.done /\ probe.op = "processSnapshot" /\ last.op = "processSnapshot"

\* The raw list names no price twice.
DistinctPrices(list) ==
  \A j, k \in 1..Len(list) : j # k => Number(list[j].p) # Number(list[k].p)

\* The store of one instrument with empty books.
FreshStore(pair) == [p \in {pair} |-> EmptyBook]

\* C15: after processSnapshot(pair, S) the book is what S gives on an empty
\* book, whatever the book held before: the merge manager's sides are the
\* lists of S, the tree manager's sides hold the levels of S (each price of S
\* named once) and no other; and processSnapshot(pair, S) once more leaves the
\* book as it is.
C15_SnapshotReplaces ==
  SnapshotRecorded =>
    LET S == probe.arg
        pair == probe.pair
        mFresh == MergeProcessSnapshot(FreshStore(pair), <<>>, pair, S)
        tFresh == TreeProcessSnapshot(FreshStore(pair), pair, S)
        mAgain == MergeProcessSnapshot(mOrderBooks, heap, pair, S)
        tAgain == TreeProcessSnapshot(tOrderBooks, pair, S)
    IN /\ last.mOut = "ok" /\ last.tOut = "ok"
       /\ MergeBooks[pair] = MergeView(mFresh.books, mFresh.heap, pair)
       /\ tOrderBooks[pair] = tFresh.books[pair]
       /\ MergeBooks[pair].bids = MapParse(S.b)
       /\ MergeBooks[pair].asks = MapParse(S.a)
       /\ DistinctPrices(S.b) =>
            /\ LevelSet(tOrderBooks[pair].bids) = LevelSet(MapParse(S.b))
            /\ Len(tOrderBooks[pair].bids) = Len(S.b)
       /\ DistinctPrices(S.a) =>
            /\ LevelSet(tOrderBooks[pair].asks) = LevelSet(MapParse(S.a))
            /\ Len(tOrderBooks[pair].asks) = Len(S.a)
       /\ MergeView(mAgain.books, mAgain.heap, pair) = MergeBooks[pair]
       /\ tAgain.books[pair] = tOrderBooks[pair]

\* C15 witness: a snapshot with bids and asks was loaded over a book that held
\* bids and asks at other prices.
C15_Witness ==
  /\ SnapshotRecorded
  /\ probe.arg.b # <<>> /\ probe.arg.a # <<>>
  /\ DistinctPrices(probe.arg.b) /\ DistinctPrices(probe.arg.a)
  /\ probe.mPre.bids # <<>> /\ probe.tPre.bids # <<>>
  /\ probe.mPre.asks # <<>> /\ probe.tPre.asks # <<>>
  /\ PricesOf(probe.mPre.bids) \cap PricesOf(MergeBooks[probe.pair].bids) = {}
  /\ PricesOf(probe.tPre.asks) \cap PricesOf(tOrderBooks[probe.pair].asks) = {}

\* C16: after a processSnapshot whose lists name distinct prices in any
\* order, the bids are strictly decreasing in price and the asks strictly
\* increasing, in both managers.
C16_SnapshotSorted ==
  (SnapshotRecorded /\ DistinctPrices(probe.arg.b) /\ DistinctPrices(probe.arg.a)) =>
    /\ StrictlyRanked(MergeBooks[probe.pair].bids, FALSE)
    /\ StrictlyRanked(MergeBooks[probe.pair].asks, TRUE)
    /\ StrictlyRanked(tOrderBooks[probe.pair].bids, FALSE)
    /\ StrictlyRanked(tOrderBooks[probe.pair].asks, TRUE)

\* The last call was a processDelta, whose arguments probe holds.
BatchRecorded == DeltaRecorded /\ last.op = "processDelta"

\* The raw list is not sorted by rank: a price out of order or named twice.
NotRanked(list, ascending) == ~StrictlyRanked(MapParse(list), ascending)
UnsortedBatch(delta) ==
  NotRanked(OrEmpty(delta, "b"), FALSE) \/ NotRanked(OrEmpty(delta, "a"), TRUE)

\* C17: in the merge manager a processDelta with a numeric batch that is not
\* sorted by rank throws nothing and completes normally.
C17_UnsortedBatchSilent ==
  (BatchRecorded /\ UnsortedBatch(probe.arg)) => last.mOut = "ok"

\* C17 witness: one unsorted batch on a well-ordered book that holds bids has
\* completed and left a side of the merge manager with a price out of rank
\* order.
C17_Witness ==
  /\ BatchRecorded /\ UnsortedBatch(probe.arg) /\ last.mOut = "ok"
  /\ WellOrdered(probe.mPre) /\ probe.mPre.bids # <<>>
  /\ LET book == MergeBooks[probe.pair] IN
       \/ \E k \in 1..(Len(book.bids) - 1) : book.bids[k][1] < book.bids[k + 1][1]
       \/ \E k \in 1..(Len(book.asks) - 1) : book.asks[k][1] > book.asks[k + 1][1]

\* The delta with the list f only.
OnlyList(delta, f) == [g \in (DOMAIN delta) \cap {f} |-> delta[g]]

\* The merge manager's store of one instrument holding the levels of view.
MergeStoreOf(pair, view) ==
  [books |-> [p \in {pair} |->
                [bids |-> [k \in 1..Len(view.bids) |-> k],
                 asks |-> [k \in 1..Len(view.asks) |-> Len(view.bids) + k]]],
   heap |-> view.bids \o view.asks]

\* C19: a processDelta whose bids list is empty or missing leaves the bids as
\* they were, one whose asks list is empty or missing leaves the asks as they
\* were, and each side after the call is what its own list alone makes of it,
\* in both managers.
C19_DeltaSidesIndependent ==
  BatchRecorded =>
    LET d == probe.arg
        pair == probe.pair
        st == MergeStoreOf(pair, probe.mPre)
        mB == MergeProcessDelta(st.books, st.heap, pair, OnlyList(d, "b"))
        mA == MergeProcessDelta(st.books, st.heap, pair, OnlyList(d, "a"))
        tB == TreeProcessDelta([p \in {pair} |-> probe.tPre], pair, OnlyList(d, "b"))
        tA == TreeProcessDelta([p \in {pair} |-> probe.tPre], pair, OnlyList(d, "a"))
    IN /\ last.mOut = "ok" /\ last.tOut = "ok"
       /\ ~NonEmpty(d, "b") =>
            (MergeBooks[pair].bids = probe.mPre.bids /\ tOrderBooks[pair].bids = probe.tPre.bids)
       /\ ~NonEmpty(d, "a") =>
            (MergeBooks[pair].asks = probe.mPre.asks /\ tOrderBooks[pair].asks = probe.tPre.asks)
       /\ MergeBooks[pair].bids = MergeView(mB.books, mB.heap, pair).bids
       /\ MergeBooks[pair].asks = MergeView(mA.books, mA.heap, pair).asks
       /\ tOrderBooks[pair].bids = tB.books[pair].bids
       /\ tOrderBooks[pair].asks = tA.books[pair].asks

\* C19 witness: a delta with bid entries and no asks list has changed the
\* bids of a book that holds asks.
C19_Witness ==
  /\ BatchRecorded /\ last.mOut = "ok" /\ last.tOut = "ok"
  /\ "a" \notin DOMAIN probe.arg /\ NonEmpty(probe.arg, "b")
  /\ probe.mPre.asks # <<>> /\ probe.tPre.asks # <<>>
  /\ MergeBooks[probe.pair].bids # probe.mPre.bids
  /\ tOrderBooks[probe.pair].bids # probe.tPre.bids

\* What the whole event (type, data) for pair makes of the books in whole, and
\* what getOrderBook(pair) then returns, by value.
WholeEvent(whole, type, pair, data) ==
  LET st == MergeStoreOf(pair, whole.m[pair])
      tb == [p \in {pair} |-> whole.t[pair]]
      m == IF type = "snapshot" THEN MergeProcessSnapshot(st.books, st.heap, pair, data)
                                ELSE MergeProcessDelta(st.books, st.heap, pair, data)
      t == IF type = "snapshot" THEN TreeProcessSnapshot(tb, pair, data)
                                ELSE TreeProcessDelta(tb, pair, data)
      mq == MergeGetOrderBook(m.books, pair, DefaultDepth).result
  IN [m |-> MergeView(m.books, m.heap, pair),
      t |-> t.books[pair],
      seen |-> [m |-> [buyOrderBook |-> Deref(m.heap, mq.buyOrderBook),
                       sellOrderBook |-> Deref(m.heap, mq.sellOrderBook)],
                t |-> TreeGetOrderBook(t.books, pair, DefaultDepth).result]]

\* C18: every read sees the books as a whole number of events, applied in
\* arrival order, leaves them.  The timer reads the sizes of the bids as the
\* last completed event left them; the handler ends with the books that the
\* whole event makes of the books the event before it left, and its
\* getOrderBook returns the levels of these books.
C18_ReadsSeeWholeEvents ==
  [][/\ task'.read = "timer" =>
          task'.seen = [m |-> Len(task.whole.m["ETHUSDT"].bids),
                        t |-> Len(task.whole.t["ETHUSDT"].bids)]
     /\ (task.pc = "busy" /\ task'.pc = "idle") =>
          LET w == WholeEvent(task.whole, task.type, task.pair, task.data) IN
            /\ MergeBooks'[task.pair] = w.m
            /\ tOrderBooks'[task.pair] = w.t
            /\ task'.whole = [m |-> MergeBooks', t |-> tOrderBooks']
            /\ task'.read = "query" => task'.seen = w.seen]_vars

\* C18 witness: after a delta event that changed both sides of the book, its
\* getOrderBook has returned and the timer has then read the bids.
C18_Witness ==
  /\ task.read = "timer" /\ task.pc = "idle"
  /\ last.op = "processDelta" /\ events = MaxEvents
  /\ task.seen.m > 0 /\ task.seen.t > 0
  /\ MergeBooks["ETHUSDT"].asks # <<>> /\ tOrderBooks["ETHUSDT"].asks # <<>>

=============================================================================
